---------------------------- MODULE Spec2Model ----------------------------
(***************************************************************************)
(* pvlib/airmass.py: relativeairmass(z, model) and                         *)
(* absoluteairmass(AMrelative, pressure), executed statement by statement  *)
(* by caller threads.                                                      *)
(*                                                                         *)
(* Numbers.  The airmass / pressure arithmetic of absoluteairmass is IEEE  *)
(* binary64, modelled bit for bit (FMul, FDiv, Round).  A zenith angle is  *)
(* an integer count of 1e-5 degree (the unit in which every threshold of   *)
(* the formulas is a whole number) and stands for the binary64 number      *)
(* nearest to it.  The value of a transcendental formula (cos, sin, a      *)
(* fractional power) at an angle is kept as an uninterpreted finite term   *)
(* [k |-> "sym", ...]; what is modelled of it is the part that decides the *)
(* control flow: the sign of the base of every fractional power, and what  *)
(* Python's float power and NumPy's power do with a zero or negative base. *)
(***************************************************************************)
EXTENDS Integers, Sequences, FiniteSets, TLC

VARIABLES
    pyMajor,         \* major version of the interpreter running the module
    AIRMASS_MODELS,  \* the module-level list of model names
    sink,            \* the messages pvl_logger.warning has emitted, in order
    frames           \* thread -> the frame of the call it is executing

vars == <<pyMajor, AIRMASS_MODELS, sink, frames>>

Max(a, b) == IF a >= b THEN a ELSE b

(***************************************************************************)
(* Natural numbers of any width as bit sequences, most significant bit     *)
(* first, without leading zeros (<<>> is 0).  Arithmetic goes through      *)
(* limbs of LimbBits bits, so that every intermediate product stays below  *)
(* 2^31.                                                                   *)
(***************************************************************************)
LimbBits == 13
WordBits == 31

Zeros(n) == [i \in 1..n |-> 0]

\* b without its leading zeros
StripLead(b) ==
    IF \A i \in 1..Len(b) : b[i] = 0 THEN <<>>
    ELSE LET first == CHOOSE i \in 1..Len(b) :
                          b[i] = 1 /\ \A j \in 1..(i - 1) : b[j] = 0
         IN  SubSeq(b, first, Len(b))

\* the bits of a natural below 2^31
NatBits(n) == StripLead([i \in 1..WordBits |-> (n \div 2^(WordBits - i)) % 2])

\* the limb whose bits are b[o+1..o+13]
LimbAt(b, o) ==
    b[o+1]*4096 + b[o+2]*2048 + b[o+3]*1024 + b[o+4]*512 + b[o+5]*256
    + b[o+6]*128 + b[o+7]*64 + b[o+8]*32 + b[o+9]*16 + b[o+10]*8
    + b[o+11]*4 + b[o+12]*2 + b[o+13]

ToLimbs(b) ==
    LET n  == (Len(b) + LimbBits - 1) \div LimbBits
        pb == Zeros(LimbBits * n - Len(b)) \o b
    IN  [j \in 1..n |-> LimbAt(pb, LimbBits * (j - 1))]

FromLimbs(l) ==
    StripLead([i \in 1..(LimbBits * Len(l)) |->
        (l[(i - 1) \div LimbBits + 1]
            \div 2^(LimbBits - 1 - ((i - 1) % LimbBits))) % 2])

\* the value of a bit sequence of at most 26 bits
BitsNat(b) ==
    LET l == ToLimbs(b)
    IN  IF Len(l) = 0 THEN 0
        ELSE IF Len(l) = 1 THEN l[1] ELSE l[1] * 2^LimbBits + l[2]

\* the limbs of l * k + carry for a natural k < 2^17, from the last limb up
RECURSIVE MulLimbs(_, _, _, _, _)
MulLimbs(l, j, k, carry, acc) ==
    IF j = 0 THEN ToLimbs(NatBits(carry)) \o acc
    ELSE MulLimbs(l, j - 1, k, (l[j] * k + carry) \div 2^LimbBits,
                  <<(l[j] * k + carry) % 2^LimbBits>> \o acc)

MulSmall(b, k) ==
    LET l == ToLimbs(b) IN FromLimbs(MulLimbs(l, Len(l), k, 0, <<>>))

\* <<quotient limbs, remainder>> of the long division of l by a natural
\* d (0 < d < 2^17), from the first limb down
RECURSIVE DivLimbs(_, _, _, _, _)
DivLimbs(l, j, d, r, q) ==
    IF j > Len(l) THEN <<q, r>>
    ELSE DivLimbs(l, j + 1, d, (r * 2^LimbBits + l[j]) % d,
                  Append(q, (r * 2^LimbBits + l[j]) \div d))

DivSmall(b, d) ==
    LET qr == DivLimbs(ToLimbs(b), 1, d, 0, <<>>) IN <<FromLimbs(qr[1]), qr[2]>>

\* b + 1
IncBits(b) ==
    IF \A i \in 1..Len(b) : b[i] = 1 THEN <<1>> \o Zeros(Len(b))
    ELSE LET last == CHOOSE i \in 1..Len(b) :
                         b[i] = 0 /\ \A j \in (i + 1)..Len(b) : b[j] = 1
         IN  [i \in 1..Len(b) |-> IF i < last THEN b[i] ELSE IF i = last THEN 1 ELSE 0]

(***************************************************************************)
(* IEEE 754 binary64.  A value is NaN, an infinity, or the finite number   *)
(* (-1)^s * m * 2^e with m a bit sequence that is odd (or <<>> for zero,   *)
(* then e = 0): every finite double has exactly one such form.             *)
(***************************************************************************)
Precision == 53       \* significand bits
MinExp == -1074       \* 2^MinExp is the smallest subnormal
OverflowExp == 1024   \* every finite double is below 2^OverflowExp

SmallBits == 17       \* width of a significand that fits one multiplier

NaN == [k |-> "nan"]
Complex == [k |-> "complex"]   \* a complex number: no binary64 value at all
Inf(s) == [k |-> "inf", s |-> s]
Fin(s, m, e) == [k |-> "fin", s |-> s, m |-> m, e |-> e]

\* m * 2^e with the trailing zeros of m moved into the exponent
Canonical(s, m, e) ==
    IF \A i \in 1..Len(m) : m[i] = 0 THEN Fin(s, <<>>, 0)
    ELSE LET last == CHOOSE i \in 1..Len(m) :
                         m[i] = 1 /\ \A j \in (i + 1)..Len(m) : m[j] = 0
         IN  Fin(s, StripLead(SubSeq(m, 1, last)), e + (Len(m) - last))

\* The double nearest to (-1)^s * (n + f) * 2^e, where 0 <= f < 1 and
\* sticky says f > 0: round to nearest, ties to even; overflow gives infinity.
Round(s, n, e, sticky) ==
    LET L    == Len(n)
        drop == Max(0, Max(L - Precision, MinExp - e))
        kept == IF drop >= L THEN <<>> ELSE SubSeq(n, 1, L - drop)
        rb   == IF drop = 0 \/ drop > L THEN 0 ELSE n[L - drop + 1]
        st   == sticky \/ (drop > L /\ L > 0)
                       \/ \E i \in (L - drop + 2)..L : i >= 1 /\ n[i] = 1
        odd  == kept # <<>> /\ kept[Len(kept)] = 1
        up   == rb = 1 /\ (st \/ odd)
        res  == IF up THEN IncBits(kept) ELSE kept
    IN  IF Len(res) + e + drop > OverflowExp THEN Inf(s)
        ELSE Canonical(s, res, e + drop)

IsNaN(x) == x.k = "nan"
IsZero(x) == x.k = "fin" /\ x.m = <<>>

\* the finite value of the formula of `model` at angle z, left unevaluated
Sym(model, z) == [k |-> "sym", model |-> model, z |-> z]

\* arithmetic on such a value, left unevaluated
Expr(op, x, y) == [k |-> "expr", op |-> op, x |-> x, y |-> y]

Symbolic(x) == x.k \in {"sym", "expr"}

\* x * y, for finite operands one of whose odd significands is below 2^17
FMul(x, y) ==
    IF IsNaN(x) \/ IsNaN(y) THEN NaN
    ELSE IF Symbolic(x) \/ Symbolic(y) THEN Expr("*", x, y)
    ELSE IF x.k = "inf" \/ y.k = "inf"
         THEN IF IsZero(x) \/ IsZero(y) THEN NaN ELSE Inf((x.s + y.s) % 2)
    ELSE Round((x.s + y.s) % 2,
               IF Len(y.m) <= SmallBits THEN MulSmall(x.m, BitsNat(y.m))
                                         ELSE MulSmall(y.m, BitsNat(x.m)),
               x.e + y.e, FALSE)

\* x / y for a finite nonzero y whose odd significand is below 2^17
FDiv(x, y) ==
    IF IsNaN(x) THEN NaN
    ELSE IF Symbolic(x) THEN Expr("/", x, y)
    ELSE IF x.k = "inf" THEN Inf((x.s + y.s) % 2)
    ELSE LET K  == Len(y.m) + Precision + 2
             qr == DivSmall(x.m \o Zeros(K), BitsNat(y.m))
         IN  IF x.m = <<>> THEN Fin((x.s + y.s) % 2, <<>>, 0)
             ELSE Round((x.s + y.s) % 2, qr[1], x.e - K - y.e, qr[2] # 0)

\* Python's == on two floats
FEq(x, y) ==
    /\ ~IsNaN(x) /\ ~IsNaN(y)
    /\ \/ x = y
       \/ IsZero(x) /\ IsZero(y)

\* The double float.hex() prints as 0x1.<thirteen hex digits>p<exp>, negated if s = 1
HexBits(h) ==
    [i \in 1..(4 * Len(h)) |-> (h[(i - 1) \div 4 + 1] \div 2^(3 - ((i - 1) % 4))) % 2]

Double(s, h, exp) == Canonical(s, <<1>> \o HexBits(h), exp - 4 * Len(h))

\* the double of a natural number below 2^31
FNat(n) == Canonical(0, NatBits(n), 0)


(***************************************************************************)
(* Strings are sequences of one-character strings.                         *)
(***************************************************************************)
UpperCase ==
    <<"A", "B", "C", "D", "E", "F", "G", "H", "I", "J", "K", "L", "M",
      "N", "O", "P", "Q", "R", "S", "T", "U", "V", "W", "X", "Y", "Z">>
LowerCase ==
    <<"a", "b", "c", "d", "e", "f", "g", "h", "i", "j", "k", "l", "m",
      "n", "o", "p", "q", "r", "s", "t", "u", "v", "w", "x", "y", "z">>

\* str.lower(), on ASCII text
lower(s) ==
    [i \in 1..Len(s) |->
        IF \E n \in 1..Len(UpperCase) : UpperCase[n] = s[i]
        THEN LowerCase[CHOOSE n \in 1..Len(UpperCase) : UpperCase[n] = s[i]]
        ELSE s[i]]

\* str.upper() and str.capitalize(), on ASCII text: they build the callers' spellings
upper(s) ==
    [i \in 1..Len(s) |->
        IF \E n \in 1..Len(LowerCase) : LowerCase[n] = s[i]
        THEN UpperCase[CHOOSE n \in 1..Len(LowerCase) : LowerCase[n] = s[i]]
        ELSE s[i]]

capitalize(s) == IF s = <<>> THEN s ELSE upper(<<s[1]>>) \o lower(Tail(s))

\* s contains sub (Python's sub in s)
Contains(s, sub) ==
    \E i \in 1..(Len(s) - Len(sub) + 1) : SubSeq(s, i, i + Len(sub) - 1) = sub

\* 'kastenyoung1989'
KASTENYOUNG1989 ==
    <<"k", "a", "s", "t", "e", "n", "y", "o", "u", "n", "g", "1", "9",
      "8", "9">>
\* 'kasten1966'
KASTEN1966 ==
    <<"k", "a", "s", "t", "e", "n", "1", "9", "6", "6">>
\* 'simple'
SIMPLE ==
    <<"s", "i", "m", "p", "l", "e">>
\* 'pickering2002'
PICKERING2002 ==
    <<"p", "i", "c", "k", "e", "r", "i", "n", "g", "2", "0", "0", "2">>
\* 'youngirvine1967'
YOUNGIRVINE1967 ==
    <<"y", "o", "u", "n", "g", "i", "r", "v", "i", "n", "e", "1", "9",
      "6", "7">>
\* 'young1994'
YOUNG1994 ==
    <<"y", "o", "u", "n", "g", "1", "9", "9", "4">>
\* 'gueymard1993'
GUEYMARD1993 ==
    <<"g", "u", "e", "y", "m", "a", "r", "d", "1", "9", "9", "3">>

\* the list bound to AIRMASS_MODELS when the module is imported
AirmassModelList ==
    <<KASTENYOUNG1989, KASTEN1966, SIMPLE, PICKERING2002,
      YOUNGIRVINE1967, YOUNG1994, GUEYMARD1993>>

\* the text after the placeholder of the warning's format string
WarningText ==
    <<" ", "i", "s", " ", "n", "o", "t", " ", "a", " ", "v", "a", "l",
      "i", "d", " ", "m", "o", "d", "e", "l", " ", "t", "y", "p", "e",
      " ", "f", "o", "r", " ", "r", "e", "l", "a", "t", "i", "v", "e",
      " ", "a", "i", "r", "m", "a", "s", "s", ".", " ", "T", "h", "e",
      " ", "'", "k", "a", "s", "t", "e", "n", "y", "o", "u", "n", "g",
      "1", "9", "8", "9", "'", " ", "m", "o", "d", "e", "l", " ", "w",
      "a", "s", " ", "u", "s", "e", "d", ".">>

\* 'Not-A-Model', a string that names no model
NOT_A_MODEL ==
    <<"N", "o", "t", "-", "A", "-", "M", "o", "d", "e", "l">>


(***************************************************************************)
(* Python objects.  An angle object carries its value in 1e-5 degree, an   *)
(* airmass or pressure object a binary64 value; t is the object's type:    *)
(* "float" (Python), "float64" (a NumPy scalar), "ndarray" (v a sequence), *)
(* "complex128" (the value is of no consequence), "NoneType".              *)
(***************************************************************************)
None == [t |-> "NoneType"]
Obj(t, v) == [t |-> t, v |-> v]

Deg == 100000              \* 1e-5 degree units in one degree
Horizon == 90 * Deg        \* the 90 of "z > 90" and of "90 - z"

\* the type of the result of arithmetic between objects of types a and b
ResultType(a, b) ==
    IF "ndarray" \in {a, b} THEN "ndarray"
    ELSE IF "complex128" \in {a, b} THEN "complex128"
    ELSE IF "float64" \in {a, b} THEN "float64"
    ELSE "float"

(***************************************************************************)
(* What an expression of the formulas evaluates to, as far as the control  *)
(* flow is concerned: a class of values, or the exception it raises.       *)
(***************************************************************************)
Exceptions == {"ZeroDivisionError", "ValueError", "TypeError"}

Sign(n) == IF n > 0 THEN 1 ELSE IF n < 0 THEN -1 ELSE 0

\* base ** exponent for a fractional exponent: Python's float power when z is
\* a Python float, NumPy's power otherwise.  negExp: the exponent is negative.
power(baseSign, negExp, zType, py) ==
    IF baseSign > 0 THEN "finite"
    ELSE IF baseSign = 0
         THEN IF ~negExp THEN "zero"
              ELSE IF zType = "float" THEN "ZeroDivisionError" ELSE "inf"
    ELSE IF zType # "float" THEN "nan"
         ELSE IF py = 2 THEN "ValueError" ELSE "complex"

\* a + b, a - b, a * b with at least one operand a NumPy value
arith(a, b) ==
    IF a \in Exceptions THEN a
    ELSE IF b \in Exceptions THEN b
    ELSE IF "complex" \in {a, b} THEN "complex"
    ELSE IF "nan" \in {a, b} THEN "nan"
    ELSE IF "inf" \in {a, b} THEN "inf"
    ELSE "finite"

\* 1.0 / a and similar quotients whose divisor a is a NumPy value: a zero
\* divisor gives an infinity there, never ZeroDivisionError
quotient(a) ==
    IF a \in Exceptions \/ a \in {"complex", "nan"} THEN a
    ELSE IF a = "inf" THEN "zero"
    ELSE IF a = "zero" THEN "inf"
    ELSE "finite"

\* np.radians(a) and np.sin(a): no loop of the ufunc takes a complex number
ufunc(a) ==
    IF a \in Exceptions THEN a
    ELSE IF a = "complex" THEN "TypeError"
    ELSE IF a \in {"nan", "inf"} THEN "nan"
    ELSE "finite"

\* the value of class c that the formula of `model` has at angle z
ValueOf(c, model, z) ==
    IF c = "nan" THEN NaN
    ELSE IF c = "inf" THEN Inf(0)
    ELSE IF c = "zero" THEN Fin(0, <<>>, 0)
    ELSE Sym(model, z)

(***************************************************************************)
(* The seven formulas at one angle z.  cos(zenith_rad) is a finite NumPy   *)
(* value for every finite z; the constants are finite.                     *)
(***************************************************************************)
\* 1.0 / (np.cos(zenith_rad) + 0.50572*(((6.07995 + (90 - z)) ** - 1.6364)))
\* In binary64 the base is never zero: at z = 96.07995 it is 2^-48.
kastenyoung1989(z, zType, py) ==
    LET base == 607995 + (Horizon - z)
    IN  quotient(arith("finite",
            arith("finite", power(IF base >= 0 THEN 1 ELSE -1, TRUE, zType, py))))

\* 1.0 / (np.cos(zenith_rad) + 0.15*((93.885 - z) ** - 1.253))
kasten1966(z, zType, py) ==
    quotient(arith("finite",
        arith("finite", power(Sign(9388500 - z), TRUE, zType, py))))

\* 1.0 / np.cos(zenith_rad)
simple(z, zType, py) == quotient("finite")

\* 1.0 / (np.sin(np.radians(90 - z + 244.0 / (165 + 47.0 * (90 - z) ** 1.1))))
pickering2002(z, zType, py) ==
    LET pw    == power(Sign(Horizon - z), FALSE, zType, py)
        inner == arith("finite", arith("finite", pw))
        frac  == IF inner \in Exceptions \/ inner \in {"complex", "nan"}
                 THEN inner ELSE "finite"
    IN  quotient(ufunc(ufunc(arith("finite", frac))))

\* (1.0 / np.cos(zenith_rad)) * (1 - 0.0012*((1.0 / np.cos(zenith_rad)) ** 2) - 1)
youngirvine1967(z, zType, py) ==
    arith(quotient("finite"),
          arith(arith("finite", arith("finite", quotient("finite"))), "finite"))

\* (1.002432*cos^2 + 0.148386*cos + 0.0096467)
\*     / (cos^3 + 0.149864*cos^2 + 0.0102963*cos + 0.000303978)
young1994(z, zType, py) ==
    arith(arith(arith("finite", "finite"), "finite"),
          quotient(arith(arith(arith("finite", "finite"), "finite"), "finite")))

\* 1.0 / (np.cos(zenith_rad) + 0.00176759*(z)*((94.37515 - z) ** - 1.21563))
gueymard1993(z, zType, py) ==
    quotient(arith("finite",
        arith(arith("finite", "finite"), power(Sign(9437515 - z), TRUE, zType, py))))


(***************************************************************************)
(* Frames.  A thread is idle or inside one call; the frame holds the       *)
(* call's locals, the line it is at, and (args) the arguments it was       *)
(* entered with, the sink as it was then, and for a call on the result of  *)
(* relativeairmass the arguments of that earlier call.                     *)
(***************************************************************************)
NoArgs == [z |-> None, model |-> <<>>, AMrelative |-> None, pressure |-> None,
           sink |-> <<>>, src |-> <<>>]

Idle ==
    [fn |-> "none", pc |-> "idle", z |-> None, model |-> <<>>,
     zenith_rad |-> None, AM |-> None, AMrelative |-> None, pressure |-> None,
     AMa |-> None, ret |-> None, exc |-> "none", args |-> NoArgs]

\* entry of relativeairmass(z, model)
EnterRelative(z, model, snk) ==
    [Idle EXCEPT !.fn = "relativeairmass", !.pc = "L82", !.z = z, !.model = model,
                 !.args = [NoArgs EXCEPT !.z = z, !.model = model, !.sink = snk]]

\* entry of absoluteairmass(AMrelative, pressure); src: where AMrelative came from
EnterAbsolute(AMrelative, pressure, snk, src) ==
    [Idle EXCEPT !.fn = "absoluteairmass", !.pc = "L153",
                 !.AMrelative = AMrelative, !.pressure = pressure,
                 !.args = [NoArgs EXCEPT !.AMrelative = AMrelative,
                                         !.pressure = pressure,
                                         !.sink = snk, !.src = src]]

Raise(f, exc) == [f EXCEPT !.pc = "raised", !.exc = exc]

\* zenith_rad = np.radians(z)
S82(f) ==
    [f EXCEPT !.zenith_rad = Obj(ResultType(f.z.t, "float64"), f.z.v), !.pc = "L84"]

\* a variant of line 84 that compares the name as the caller spelt it
S84_CaseSensitive(f) == [f EXCEPT !.pc = "L86"]

\* model = model.lower()
S84(f) == [f EXCEPT !.model = lower(f.model), !.pc = "L86"]

\* the if / elif chain: the line of the branch taken
Branch(model) ==
    IF KASTENYOUNG1989 = model THEN "L87"
    ELSE IF KASTEN1966 = model THEN "L89"
    ELSE IF SIMPLE = model THEN "L91"
    ELSE IF PICKERING2002 = model THEN "L93"
    ELSE IF YOUNGIRVINE1967 = model THEN "L95"
    ELSE IF YOUNG1994 = model THEN "L97"
    ELSE IF GUEYMARD1993 = model THEN "L99"
    ELSE "L101"

S86(f) == [f EXCEPT !.pc = Branch(f.model)]

\* the class of the formula named `name` at one angle
Formula(name, z, zType, py) ==
    IF name = KASTENYOUNG1989 THEN kastenyoung1989(z, zType, py)
    ELSE IF name = KASTEN1966 THEN kasten1966(z, zType, py)
    ELSE IF name = SIMPLE THEN simple(z, zType, py)
    ELSE IF name = PICKERING2002 THEN pickering2002(z, zType, py)
    ELSE IF name = YOUNGIRVINE1967 THEN youngirvine1967(z, zType, py)
    ELSE IF name = YOUNG1994 THEN young1994(z, zType, py)
    ELSE gueymard1993(z, zType, py)

\* AM = <the formula named `name`>: element by element for an array (NumPy never
\* raises there), once for a scalar, where an exception leaves the call
Assign(f, name, py) ==
    IF f.z.t = "ndarray"
    THEN [f EXCEPT !.AM = Obj("ndarray",
                [i \in 1..Len(f.z.v) |->
                    ValueOf(Formula(name, f.z.v[i], "ndarray", py), name, f.z.v[i])]),
                   !.pc = "L105"]
    ELSE LET c == Formula(name, f.z.v, f.z.t, py)
         IN  IF c \in Exceptions THEN Raise(f, c)
             ELSE IF c = "complex"
                  THEN [f EXCEPT !.AM = Obj("complex128", Complex), !.pc = "L105"]
             ELSE [f EXCEPT !.AM = Obj("float64", ValueOf(c, name, f.z.v)),
                            !.pc = "L105"]

S87(f, py) == Assign(f, KASTENYOUNG1989, py)
S89(f, py) == Assign(f, KASTEN1966, py)
S91(f, py) == Assign(f, SIMPLE, py)
S93(f, py) == Assign(f, PICKERING2002, py)
S95(f, py) == Assign(f, YOUNGIRVINE1967, py)
S97(f, py) == Assign(f, YOUNG1994, py)
S99(f, py) == Assign(f, GUEYMARD1993, py)

\* a variant of the message that leaves the identifier out
WarningMessageAnonymous(model) == WarningText

\* "{} is not a valid model type for relative airmass. The 'kastenyoung1989'
\* model was used.".format(model)
WarningMessage(model) == model \o WarningText

\* a variant of line 101 that logs the message twice
EmitTwice(f, snk) == Append(Append(snk, f.model \o WarningText), f.model \o WarningText)

\* pvl_logger.warning(...): the frame after it, and the sink after it
S101(f) == [f EXCEPT !.pc = "L102"]
Emit(f, snk) == Append(snk, WarningMessage(f.model))

\* a variant of the else branch that falls back to another formula
S102_Kasten1966(f, py) == Assign(f, KASTEN1966, py)

\* the else branch computes the first formula again
S102(f, py) == Assign(f, KASTENYOUNG1989, py)

\* a variant of line 105 whose mask includes the horizon itself
S105_AtHorizon(f) ==
    IF f.AM.t = "ndarray"
    THEN [f EXCEPT !.AM = Obj("ndarray",
                [i \in 1..Len(f.AM.v) |->
                    IF f.z.v[i] >= Horizon THEN NaN ELSE f.AM.v[i]]),
                   !.pc = "L109"]
    ELSE [f EXCEPT !.pc = "L107"]

\* try: AM[z > 90] = np.nan -- item assignment on an array; a NumPy scalar
\* supports none, and the TypeError is caught
S105(f) ==
    IF f.AM.t = "ndarray"
    THEN [f EXCEPT !.AM = Obj("ndarray",
                [i \in 1..Len(f.AM.v) |->
                    IF f.z.v[i] > Horizon THEN NaN ELSE f.AM.v[i]]),
                   !.pc = "L109"]
    ELSE [f EXCEPT !.pc = "L107"]

\* except TypeError: AM = np.nan if z > 90 else AM
S107(f) ==
    [f EXCEPT !.AM = IF f.z.v > Horizon THEN Obj("float", NaN) ELSE f.AM,
              !.pc = "L109"]

\* return AM
S109(f) == [f EXCEPT !.ret = f.AM, !.pc = "done"]

\* the divisor of line 153
STD_PRESSURE == 101325

\* a variant of line 153 without the division
absoluteUndivided(x, pressure) == FMul(x, pressure)

\* x * pressure / 101325. on one element
absolute(x, pressure) == FDiv(FMul(x, pressure), FNat(STD_PRESSURE))

\* AMa = AMrelative * pressure / 101325.   (pressure a scalar)
S153(f) ==
    [f EXCEPT !.AMa =
        IF f.AMrelative.t = "ndarray"
        THEN Obj("ndarray", [i \in 1..Len(f.AMrelative.v) |->
                                absolute(f.AMrelative.v[i], f.pressure.v)])
        ELSE Obj(ResultType(f.AMrelative.t, f.pressure.t),
                 absolute(f.AMrelative.v, f.pressure.v)),
              !.pc = "L155"]

\* return AMa
S155(f) == [f EXCEPT !.ret = f.AMa, !.pc = "done"]

Lines ==
    {"L82", "L84", "L86", "L87", "L89", "L91", "L93", "L95", "L97", "L99",
     "L101", "L102", "L105", "L107", "L109", "L153", "L155"}

\* the frame after the statement it is at
Step(f, py) ==
    CASE f.pc = "L82" -> S82(f)
      [] f.pc = "L84" -> S84(f)
      [] f.pc = "L86" -> S86(f)
      [] f.pc = "L87" -> S87(f, py)
      [] f.pc = "L89" -> S89(f, py)
      [] f.pc = "L91" -> S91(f, py)
      [] f.pc = "L93" -> S93(f, py)
      [] f.pc = "L95" -> S95(f, py)
      [] f.pc = "L97" -> S97(f, py)
      [] f.pc = "L99" -> S99(f, py)
      [] f.pc = "L101" -> S101(f)
      [] f.pc = "L102" -> S102(f, py)
      [] f.pc = "L105" -> S105(f)
      [] f.pc = "L107" -> S107(f)
      [] f.pc = "L109" -> S109(f)
      [] f.pc = "L153" -> S153(f)
      [] f.pc = "L155" -> S155(f)

\* the sink after that statement
StepSink(f, snk) == IF f.pc = "L101" THEN Emit(f, snk) ELSE snk

\* a call run to its end with nothing else running: <<final frame, sink>>
RECURSIVE Run(_, _, _)
Run(f, snk, py) ==
    IF f.pc \notin Lines THEN <<f, snk>>
    ELSE Run(Step(f, py), StepSink(f, snk), py)


(***************************************************************************)
(* The callers' inputs.                                                    *)
(***************************************************************************)
MaxLen == 2       \* longest array passed as z
MaxLog == 2       \* relativeairmass is entered while the sink holds fewer messages
NThreads == 2     \* threads of the concurrent specification

Threads == 1..NThreads

\* 0, 60, 90, 91, 93.885, 94.37515, 96.07995 and 100 degrees
Angles ==
    {0, 60 * Deg, Horizon, 91 * Deg, 9388500, 9437515, 9607995, 100 * Deg}

ArrayAngles == {60 * Deg, Horizon, 9388500, 100 * Deg}

Arrays == UNION {[1..n -> ArrayAngles] : n \in 1..MaxLen}

ZObjects ==
    {Obj(ty, a) : ty \in {"float", "float64"}, a \in Angles}
    \cup {Obj("ndarray", s) : s \in Arrays}

ValidNames == {AIRMASS_MODELS[i] : i \in 1..Len(AIRMASS_MODELS)}

\* a name as callers may spell it
Spellings(m) == {m, upper(m), capitalize(m)}

ModelStrings ==
    UNION {Spellings(AirmassModelList[i]) : i \in 1..Len(AirmassModelList)}
    \cup {NOT_A_MODEL, lower(NOT_A_MODEL)}

\* 1.0, 2.0, 31.439978998870004, 1.8e303, -1.5, 5e-324, 0.0, inf, nan
AirmassValues ==
    {FNat(1), FNat(2), Double(0, <<15, 7, 0, 10, 2, 7, 6, 11, 3, 1, 2, 13, 0>>, 4),
     Double(0, <<4, 15, 15, 9, 9, 3, 3, 8, 8, 6, 7, 5, 14>>, 1007),
     Double(1, <<8>>, 0), Fin(0, <<1>>, MinExp), FNat(0), Inf(0), NaN}

AirmassObjects ==
    {Obj("float", x) : x \in AirmassValues}
    \cup {Obj("ndarray", <<FNat(2), NaN>>)}

\* pressure=101325. in the signature of absoluteairmass
DEFAULT_PRESSURE == 101325

\* 101325.0, 50662.5, 90000.0, 0.0, nan
PressureObjects ==
    {Obj("float", x) : x \in {FNat(DEFAULT_PRESSURE), Canonical(0, NatBits(101325), -1),
                               FNat(90000), FNat(0), NaN}}

\* the pressures a caller combines with the result of relativeairmass
ChainPressures == {Obj("float", x) : x \in {Canonical(0, NatBits(101325), -1), NaN}}

(***************************************************************************)
(* The state machine.                                                      *)
(***************************************************************************)
Init ==
    /\ pyMajor \in {2, 3}
    /\ AIRMASS_MODELS = AirmassModelList
    /\ sink = <<>>
    /\ frames = [t \in Threads |-> Idle]

Goto(t, f) ==
    /\ frames' = [frames EXCEPT ![t] = f]
    /\ UNCHANGED <<pyMajor, AIRMASS_MODELS, sink>>

At(t, line) == frames[t].pc = line

\* a caller calls relativeairmass(z, model), <<z, model>> one of `calls`;
\* snapshot: the frame records the sink as the call found it
CallRelative(t, calls, snapshot) ==
    /\ At(t, "idle")
    /\ Len(sink) < MaxLog
    /\ \E c \in calls :
        Goto(t, EnterRelative(c[1], c[2], IF snapshot THEN sink ELSE <<>>))

\* a caller calls absoluteairmass(AMrelative, pressure)
CallAbsolute(t, xs, ps) ==
    /\ At(t, "idle")
    /\ \E x \in xs, p \in ps : Goto(t, EnterAbsolute(x, p, sink, <<>>))

\* a caller calls absoluteairmass(AMrelative): pressure takes its default
CallAbsoluteDefault(t, xs) ==
    /\ At(t, "idle")
    /\ \E x \in xs :
        Goto(t, EnterAbsolute(x, Obj("float", FNat(DEFAULT_PRESSURE)), sink, <<>>))

\* a caller passes the value relativeairmass returned on to absoluteairmass
Chain(t) ==
    /\ At(t, "done")
    /\ frames[t].fn = "relativeairmass"
    /\ \E p \in ChainPressures :
        Goto(t, EnterAbsolute(frames[t].ret, p, sink, <<frames[t].args>>))

\* the caller takes the returned value, or the exception
Return(t) ==
    /\ frames[t].pc \in {"done", "raised"}
    /\ Goto(t, Idle)

L82(t) == At(t, "L82") /\ Goto(t, S82(frames[t]))
L84(t) == At(t, "L84") /\ Goto(t, S84(frames[t]))
L86(t) == At(t, "L86") /\ Goto(t, S86(frames[t]))
L87(t) == At(t, "L87") /\ Goto(t, S87(frames[t], pyMajor))
L89(t) == At(t, "L89") /\ Goto(t, S89(frames[t], pyMajor))
L91(t) == At(t, "L91") /\ Goto(t, S91(frames[t], pyMajor))
L93(t) == At(t, "L93") /\ Goto(t, S93(frames[t], pyMajor))
L95(t) == At(t, "L95") /\ Goto(t, S95(frames[t], pyMajor))
L97(t) == At(t, "L97") /\ Goto(t, S97(frames[t], pyMajor))
L99(t) == At(t, "L99") /\ Goto(t, S99(frames[t], pyMajor))
L101(t) ==
    /\ At(t, "L101")
    /\ frames' = [frames EXCEPT ![t] = S101(@)]
    /\ sink' = Emit(frames[t], sink)
    /\ UNCHANGED <<pyMajor, AIRMASS_MODELS>>
L102(t) == At(t, "L102") /\ Goto(t, S102(frames[t], pyMajor))
L105(t) == At(t, "L105") /\ Goto(t, S105(frames[t]))
L107(t) == At(t, "L107") /\ Goto(t, S107(frames[t]))
L109(t) == At(t, "L109") /\ Goto(t, S109(frames[t]))
L153(t) == At(t, "L153") /\ Goto(t, S153(frames[t]))
L155(t) == At(t, "L155") /\ Goto(t, S155(frames[t]))

\* one caller
MainThreads == {CHOOSE t \in Threads : \A u \in Threads : t <= u}

Next ==
    \E t \in MainThreads :
        \/ CallRelative(t, ZObjects \X ModelStrings, TRUE)
        \/ CallAbsolute(t, AirmassObjects, PressureObjects)
        \/ CallAbsoluteDefault(t, AirmassObjects)
        \/ Chain(t)
        \/ Return(t)
        \/ L82(t) \/ L84(t) \/ L86(t) \/ L87(t) \/ L89(t) \/ L91(t) \/ L93(t)
        \/ L95(t) \/ L97(t) \/ L99(t) \/ L101(t) \/ L102(t) \/ L105(t)
        \/ L107(t) \/ L109(t) \/ L153(t) \/ L155(t)

Spec == Init /\ [][Next]_vars


(***************************************************************************)
(* Several callers at once: every thread runs its own call, one statement  *)
(* at a time, in any interleaving.                                         *)
(***************************************************************************)
\* a variant in which `model` is one module-level variable instead of a local:
\* a thread inside relativeairmass works on the name another such thread holds
ExecShared(t) ==
    /\ frames[t].pc \in Lines
    /\ LET g == CHOOSE u \in Threads :
                    /\ frames[u].fn = frames[t].fn /\ frames[u].pc \in Lines
                    /\ \A v \in Threads :
                        (frames[v].fn = frames[t].fn /\ frames[v].pc \in Lines) => u <= v
           f == [frames[t] EXCEPT !.model = frames[g].model]
       IN  /\ frames' = [frames EXCEPT ![t] = Step(f, pyMajor)]
           /\ sink' = StepSink(f, sink)
    /\ UNCHANGED <<pyMajor, AIRMASS_MODELS>>

\* thread t executes the statement it is at, on its own locals
Exec(t) ==
    /\ frames[t].pc \in Lines
    /\ frames' = [frames EXCEPT ![t] = Step(@, pyMajor)]
    /\ sink' = StepSink(frames[t], sink)
    /\ UNCHANGED <<pyMajor, AIRMASS_MODELS>>

\* relativeairmass([60, 100], 'Not-A-Model'), relativeairmass(91.0, 'PICKERING2002')
\* and relativeairmass(np.float64(100), 'Kasten1966')
ConcCalls ==
    {<<Obj("ndarray", <<60 * Deg, 100 * Deg>>), NOT_A_MODEL>>,
     <<Obj("float", 91 * Deg), upper(PICKERING2002)>>,
     <<Obj("float64", 100 * Deg), capitalize(KASTEN1966)>>}
ConcAirmassObjects == {Obj("float", FNat(2))}
ConcPressureObjects == {Obj("float", Canonical(0, NatBits(101325), -1))}

\* every thread makes one call
NextConc ==
    \E t \in Threads :
        \/ CallRelative(t, ConcCalls, FALSE)
        \/ CallAbsolute(t, ConcAirmassObjects, ConcPressureObjects)
        \/ Exec(t)

SpecConc == Init /\ [][NextConc]_vars

(***************************************************************************)
(* Vocabulary of the properties.                                           *)
(***************************************************************************)
Finished(f) == f.pc \in {"done", "raised"}
RelFinished(f) == f.fn = "relativeairmass" /\ Finished(f)
AbsFinished(f) == f.fn = "absoluteairmass" /\ Finished(f)

\* the elements of an object: of an array its elements, of a scalar itself
Elems(o) == IF o.t = "ndarray" THEN o.v ELSE <<o.v>>

\* the outcome of a call: how it ended, what it returned or raised
Outcome(f) == <<f.pc, f.ret, f.exc>>

\* relativeairmass(z, model) run on its own: its final frame
Alone(z, model, py) == Run(EnterRelative(z, model, <<>>), <<>>, py)[1]

\* the name is, whatever its case, one of the seven
IsValid(model) == \E m \in ValidNames : lower(model) = m


(***************************************************************************)
(* C1.  Horizon masking: every finished call of relativeairmass has        *)
(* returned, with NaN at every element whose angle is above 90 degrees     *)
(* (scalar or array element), and with the value of the selected formula   *)
(* (the first one for an unknown name) at every element at exactly 90.     *)
(***************************************************************************)
SelectedName(model) ==
    IF IsValid(model) THEN lower(model) ELSE KASTENYOUNG1989

C1_HorizonMasking ==
    \A t \in Threads :
        LET f == frames[t] IN
        RelFinished(f) =>
            /\ f.pc = "done"
            /\ Len(Elems(f.ret)) = Len(Elems(f.args.z))
            /\ \A i \in 1..Len(Elems(f.args.z)) :
                LET z == Elems(f.args.z)[i] IN
                /\ z > Horizon => IsNaN(Elems(f.ret)[i])
                /\ z = Horizon => Elems(f.ret)[i] = Sym(SelectedName(f.args.model), z)

(***************************************************************************)
(* C2.  Default fallback: a finished call whose model name is, after case  *)
(* folding, none of the seven and whose angles are all at most 90 has      *)
(* returned what relativeairmass(z, 'kastenyoung1989') returns, and has    *)
(* put one warning into the sink.                                          *)
(***************************************************************************)
AllAtMost90(z) == \A i \in 1..Len(Elems(z)) : Elems(z)[i] <= Horizon

C2_DefaultFallback ==
    \A t \in Threads :
        LET f == frames[t] IN
        (RelFinished(f) /\ ~IsValid(f.args.model) /\ AllAtMost90(f.args.z)) =>
            /\ f.pc = "done"
            /\ f.ret = Alone(f.args.z, KASTENYOUNG1989, pyMajor).ret
            /\ Len(sink) = Len(f.args.sink) + 1

C2_Witness ==
    \E t \in Threads :
        /\ RelFinished(frames[t]) /\ frames[t].pc = "done"
        /\ ~IsValid(frames[t].args.model)
        /\ AllAtMost90(frames[t].args.z)
        /\ frames[t].ret.t = "float64" /\ frames[t].ret.v.k = "sym"

(***************************************************************************)
(* C3.  Case insensitivity: a finished call whose model name is a spelling *)
(* (lower, upper or capitalised) of a valid name m ends as the call with m *)
(* itself ends -- same value, or same exception -- computes the formula of *)
(* m, and puts no warning into the sink.                                   *)
(***************************************************************************)
C3_CaseInsensitive ==
    \A t \in Threads : \A m \in ValidNames :
        LET f == frames[t] IN
        (RelFinished(f) /\ f.args.model \in Spellings(m)) =>
            /\ Outcome(f) = Outcome(Alone(f.args.z, m, pyMajor))
            /\ sink = f.args.sink
            /\ f.pc = "done" =>
                \A i \in 1..Len(Elems(f.ret)) :
                    Elems(f.ret)[i].k = "sym" => Elems(f.ret)[i].model = m

C3_Witness ==
    \E t \in Threads : \E m \in ValidNames :
        /\ RelFinished(frames[t]) /\ frames[t].pc = "done"
        /\ frames[t].args.model = upper(m) /\ frames[t].args.model # m
        /\ frames[t].ret.v = Sym(m, frames[t].args.z.v)

(***************************************************************************)
(* C4.  Never throws: no call of relativeairmass or absoluteairmass ends   *)
(* in an exception.                                                        *)
(***************************************************************************)
C4_NeverRaises == \A t \in Threads : frames[t].pc # "raised"

JustWarned(t) == frames[t].pc = "L102"

Finite(x) == x.k = "fin"

\* the product x * p needs no rounding: it is a double as it stands
ExactProduct(x, p) ==
    /\ Finite(x) /\ Finite(p)
    /\ FMul(x, p) = Canonical((x.s + p.s) % 2, MulSmall(x.m, BitsNat(p.m)), x.e + p.e)

HalfStandard == Canonical(0, NatBits(STD_PRESSURE), -1)    \* 50662.5

\* a finished call absoluteairmass(x, p) on Python floats
AbsOnFloats(f) ==
    AbsFinished(f) /\ f.args.AMrelative.t = "float" /\ f.args.pressure.t = "float"

C7_IdentityForEveryFinite ==
    \A t \in Threads :
        LET f == frames[t] IN
        AbsOnFloats(f) =>
            /\ (f.args.pressure.v = FNat(STD_PRESSURE) /\ Finite(f.args.AMrelative.v))
                   => FEq(f.ret.v, f.args.AMrelative.v)
            /\ (f.args.AMrelative.v = FNat(2) /\ f.args.pressure.v = HalfStandard)
                   => FEq(f.ret.v, FNat(1))

C7_IdentityForExactProducts ==
    \A t \in Threads :
        LET f == frames[t] IN
        AbsOnFloats(f) =>
            /\ f.pc = "done"
            /\ (f.args.pressure.v = FNat(STD_PRESSURE)
                    /\ ExactProduct(f.args.AMrelative.v, f.args.pressure.v))
                   => FEq(f.ret.v, f.args.AMrelative.v)
            /\ (f.args.AMrelative.v = FNat(2) /\ f.args.pressure.v = HalfStandard)
                   => FEq(f.ret.v, FNat(1))

C7_Witness ==
    \E t \in Threads :
        /\ AbsOnFloats(frames[t])
        /\ frames[t].args.pressure.v = FNat(STD_PRESSURE)
        /\ ExactProduct(frames[t].args.AMrelative.v, frames[t].args.pressure.v)
        /\ frames[t].args.AMrelative.v = Double(1, <<8>>, 0)
        /\ frames[t].ret.v = Double(1, <<8>>, 0)

(***************************************************************************)
(* C8.  NaN propagation: a finished call of absoluteairmass has returned,  *)
(* with NaN wherever its airmass or its pressure is NaN; and a finished    *)
(* call of relativeairmass has returned a value that absoluteairmass turns *)
(* into NaN, at every pressure, wherever the angle is above 90 degrees.    *)
(***************************************************************************)
C8_NaNPropagation ==
    \A t \in Threads :
        LET f == frames[t] IN
        /\ AbsFinished(f) =>
            /\ f.pc = "done"
            /\ \A i \in 1..Len(Elems(f.args.AMrelative)) :
                (IsNaN(Elems(f.args.AMrelative)[i]) \/ IsNaN(f.args.pressure.v))
                    => IsNaN(Elems(f.ret)[i])
        /\ RelFinished(f) =>
            \A i \in 1..Len(Elems(f.args.z)) :
                Elems(f.args.z)[i] > Horizon =>
                    /\ f.pc = "done"
                    /\ \A p \in PressureObjects :
                        IsNaN(absolute(Elems(f.ret)[i], p.v))

(***************************************************************************)
(* C9.  Element-wise consistency: a finished call on an array has returned *)
(* an array of the same length whose element i is what relativeairmass     *)
(* returns for the scalar z[i] (a NumPy float64, as indexing an array      *)
(* gives) and the same model name; an element is NaN by the mask exactly   *)
(* if z[i] > 90, and the array z is as the caller passed it.               *)
(***************************************************************************)
C9_ElementWise ==
    \A t \in Threads :
        LET f == frames[t] IN
        (RelFinished(f) /\ f.args.z.t = "ndarray") =>
            /\ f.pc = "done"
            /\ f.ret.t = "ndarray"
            /\ Len(f.ret.v) = Len(f.args.z.v)
            /\ f.z = f.args.z
            /\ \A i \in 1..Len(f.args.z.v) :
                LET one == Alone(Obj("float64", f.args.z.v[i]), f.args.model, pyMajor)
                IN  /\ one.pc = "done"
                    /\ f.ret.v[i] = one.ret.v
                    /\ f.args.z.v[i] <= Horizon =>
                           f.ret.v[i] = Sym(SelectedName(f.args.model), f.args.z.v[i])

C9_Witness ==
    \E t \in Threads :
        /\ RelFinished(frames[t])
        /\ frames[t].args.z = Obj("ndarray", <<Horizon, 100 * Deg>>)
        /\ frames[t].args.model = SIMPLE
        /\ frames[t].ret.v = <<Sym(SIMPLE, Horizon), NaN>>

(***************************************************************************)
(* C10.  Reentrancy: whatever the interleaving, a finished call ended as   *)
(* the same call ends when it runs with nothing else running -- same       *)
(* value or same exception; a thread past line 101 has its own warning in  *)
(* the sink; and AIRMASS_MODELS is the list it was.                        *)
(***************************************************************************)
\* the call of frame f, run on its own from the arguments it was entered with
Solo(f, py) ==
    IF f.fn = "relativeairmass"
    THEN Run(EnterRelative(f.args.z, f.args.model, <<>>), <<>>, py)
    ELSE Run(EnterAbsolute(f.args.AMrelative, f.args.pressure, <<>>, <<>>), <<>>, py)

PastWarning(f) ==
    /\ f.fn = "relativeairmass"
    /\ f.pc \in {"L102", "L105", "L107", "L109", "done", "raised"}
    /\ ~IsValid(f.args.model)

=============================================================================
